---- MODULE Spec2Model ----
(***************************************************************************)
(* Model of the_silicon_mile: the access-control gate of /admin            *)
(* (middleware + AdminPage), the registrations table with its row-level    *)
(* policies, the multi-step registration form (nextStep, prevStep,         *)
(* handleSubmit(onSubmit)), the dashboard page, and the admin table with   *)
(* its filter and its CSV export.                                          *)
(*                                                                         *)
(* Text values are sequences of one-character strings, so that lengths     *)
(* are computed and not assumed.  An asynchronous handler is cut at its    *)
(* awaits: what it captured before the await is kept in a pending record.  *)
(***************************************************************************)
EXTENDS Integers, Sequences, FiniteSets, TLC

VARIABLES
    registrations,   \* the rows of table registrations, in insertion order
    metaRole,        \* auth.users: user id -> user_metadata.role
    session,         \* the browser's session cookie: NoSession or a token
    req,             \* the server-side request being processed
    form,            \* form instance -> React state of RegistrationForm
    pending,         \* form instance -> handler calls awaiting the resolver
    inflight,        \* inserts sent by onSubmit that have not resolved yet
    clock,           \* logical time, read by new Date() in onSubmit
    apiResult,       \* what the last select of an API client returned
    roleChanges,     \* number of role changes made by external administration
    table            \* the AdminTable component: rows, query, view, export

vars == << registrations, metaRole, session, req, form, pending, inflight,
           clock, apiResult, roleChanges, table >>

gateVars == << metaRole, session, req, roleChanges >>
formVars == << form, pending, inflight, clock >>
clientVars == << apiResult, table >>

-----------------------------------------------------------------------------
(* Bounds                                                                  *)

MaxRoleChanges == 2
MaxPending == 1
MaxInflight == 2
MaxClock == 3

-----------------------------------------------------------------------------
(* Values                                                                  *)

Users == {"u1", "u2"}
NoUser == "nobody"
NoSession == [uid |-> NoUser, role |-> "<undefined>"]

\* JavaScript values a metadata role can take: undefined (field or metadata
\* absent), null, and strings.
Absent == "<undefined>"
JsNull == "<null>"
RoleValues == {Absent, JsNull, "", "user", "admin", "Admin"}

Forms == {1, 2}
Steps == {1, 2, 3}
Fields == {"fullName", "corporateEmail", "employeeId", "companyName",
           "tshirtSize", "emergencyContact", "emergencyPhone"}

-----------------------------------------------------------------------------
(* The registrations table and its policies                                *)

TshirtSizes == {"S", "M", "L", "XL"}
Statuses == {"pending", "confirmed", "cancelled"}

\* SQL is three-valued: "T", "F" and "N" (NULL).  A comparison with NULL is
\* NULL, and a policy admits a row only when its expression is "T".
SqlNull == "<NULL>"
SqlEq(a, b) == IF a = SqlNull \/ b = SqlNull THEN "N"
               ELSE IF a = b THEN "T" ELSE "F"
SqlOr(x, y) == IF x = "T" \/ y = "T" THEN "T"
               ELSE IF x = "N" \/ y = "N" THEN "N" ELSE "F"

\* auth.uid(): the id in the caller's token, NULL for an anonymous caller.
AuthUid(token) == IF token.uid = NoUser THEN SqlNull ELSE token.uid

\* (auth.jwt() ->> 'user_metadata')::jsonb ->> 'role': the role claim as
\* text; a missing key and a JSON null both give NULL.
JwtRoleText(token) ==
    IF token.uid = NoUser \/ token.role \in {Absent, JsNull}
    THEN SqlNull ELSE token.role

\* A policy that admits every row to every caller.
SelectPolicyNoRole(row, token) == "T"

\* USING (auth.uid() = user_id OR <role claim> = 'admin')
SelectPolicy(row, token) ==
    SqlOr(SqlEq(AuthUid(token), row.user_id),
          SqlEq(JwtRoleText(token), "admin"))

\* A policy with AND in place of OR.
SelectVisibleAnd(rows, token) ==
    SelectSeq(rows, LAMBDA r :
        SqlEq(AuthUid(token), r.user_id) = "T"
        /\ SqlEq(JwtRoleText(token), "admin") = "T")

\* select * from registrations, as the caller is allowed to see it.
SelectVisible(rows, token) ==
    SelectSeq(rows, LAMBDA r : SelectPolicy(r, token) = "T")

\* .order("registration_date", { ascending: false }): insertion sort of the
\* rows by descending date.  Dates are distinct (see clock), so there are no
\* ties to order.
RECURSIVE InsertDesc(_, _)
InsertDesc(sorted, r) ==
    IF sorted = << >> THEN << r >>
    ELSE IF r.registration_date > Head(sorted).registration_date
         THEN << r >> \o sorted
         ELSE << Head(sorted) >> \o InsertDesc(Tail(sorted), r)

RECURSIVE OrderByDateDesc(_)
OrderByDateDesc(rows) ==
    IF rows = << >> THEN << >>
    ELSE InsertDesc(OrderByDateDesc(Tail(rows)), Head(rows))

\* An insert policy with the admin clause of the select policy.
InsertPolicyOrAdmin(row, token) ==
    SqlOr(SqlEq(AuthUid(token), row.user_id),
          SqlEq(JwtRoleText(token), "admin"))

\* WITH CHECK (auth.uid() = user_id)
InsertPolicy(row, token) == SqlEq(AuthUid(token), row.user_id)

\* A table declared without UNIQUE(user_id).
InsertOutcomeNoUnique(rows, row, token) ==
    IF InsertPolicy(row, token) # "T" THEN "rls"
    ELSE IF row.tshirt_size \notin TshirtSizes \/ row.status \notin Statuses
         THEN "check"
    ELSE "ok"

\* What the engine answers to INSERT: the row-level policy is evaluated
\* first, then the CHECK constraints, then the unique index on user_id.
InsertOutcome(rows, row, token) ==
    IF InsertPolicy(row, token) # "T" THEN "rls"
    ELSE IF row.tshirt_size \notin TshirtSizes \/ row.status \notin Statuses
         THEN "check"
    ELSE IF \E i \in 1..Len(rows) : rows[i].user_id = row.user_id
         THEN "unique"
    ELSE "ok"

\* A store whose insert replaces the row of a user who has one (upsert).
InsertRowsUpsert(rows, row, token) ==
    IF InsertOutcome(rows, row, token) = "ok" THEN Append(rows, row)
    ELSE IF InsertOutcome(rows, row, token) = "unique"
         THEN [i \in 1..Len(rows) |->
                 IF rows[i].user_id = row.user_id THEN row ELSE rows[i]]
    ELSE rows

\* The table after an INSERT: the row is appended when it is accepted.
InsertRows(rows, row, token) ==
    IF InsertOutcome(rows, row, token) = "ok" THEN Append(rows, row) ELSE rows

\* PostgrestError.message for each rejection.
ErrorMessage(outcome) ==
    CASE outcome = "unique" ->
           "duplicate key value violates unique constraint"
      [] outcome = "rls" ->
           "new row violates row-level security policy"
      [] outcome = "check" ->
           "new row violates check constraint"
      [] OTHER -> ""

RowsOf(rows, u) == SelectSeq(rows, LAMBDA r : r.user_id = u)

-----------------------------------------------------------------------------
(* Identity: sessions and roles                                            *)

\* The metadata entry of an e-mail address nobody has signed up with.
NoAccount == "<no account>"

\* The options.data object of signUp, and the role a user object with that
\* metadata shows (user_metadata?.role).
SignUpMetadata(fullName, company) ==
    [full_name |-> fullName, company |-> company]
MetadataRole(metadata) ==
    IF "role" \in DOMAIN metadata THEN metadata.role ELSE Absent

\* A signup that lets the visitor choose the role.
SignUpWithRole(u, confirmed) ==
    /\ metaRole[u] = NoAccount
    /\ \E r \in {"user", "admin"} :
          LET metadata == [full_name |-> << "A", "l" >>,
                           company |-> << "A", "c" >>, role |-> r]
              role == MetadataRole(metadata) IN
          /\ metaRole' = [metaRole EXCEPT ![u] = role]
          /\ session' = IF confirmed THEN [uid |-> u, role |-> role]
                        ELSE session
    /\ UNCHANGED << registrations, req, roleChanges, formVars, clientVars >>

\* Register.onSubmit: supabase.auth.signUp creates the account with the
\* metadata full_name and company.  Where the project confirms e-mail
\* addresses by itself the answer carries a session; otherwise the user
\* signs in after confirming.  An address that is taken gives an error and
\* changes nothing.
SignUp(u, confirmed) ==
    /\ metaRole[u] = NoAccount
    /\ LET metadata == SignUpMetadata(<< "A", "l" >>, << "A", "c" >>)
           role == MetadataRole(metadata) IN
       /\ metaRole' = [metaRole EXCEPT ![u] = role]
       /\ session' = IF confirmed THEN [uid |-> u, role |-> role]
                     ELSE session
    /\ UNCHANGED << registrations, req, roleChanges, formVars, clientVars >>

\* signInWithPassword: the token carries the metadata as it is at sign-in.
SignIn(u) ==
    /\ session = NoSession
    /\ metaRole[u] # NoAccount
    /\ session' = [uid |-> u, role |-> metaRole[u]]
    /\ UNCHANGED << registrations, metaRole, req, roleChanges, formVars,
                    clientVars >>

SignOut ==
    /\ session # NoSession
    /\ session' = NoSession
    /\ UNCHANGED << registrations, metaRole, req, roleChanges, formVars,
                    clientVars >>

\* A token refresh re-reads the metadata into the token's claims.
RefreshToken ==
    /\ session # NoSession
    /\ session.role # metaRole[session.uid]
    /\ session' = [session EXCEPT !.role = metaRole[session.uid]]
    /\ UNCHANGED << registrations, metaRole, req, roleChanges, formVars,
                    clientVars >>

\* The role is edited in the identity provider's dashboard, outside the
\* application.
ExternalSetRole(u, r) ==
    /\ roleChanges < MaxRoleChanges
    /\ metaRole[u] # NoAccount
    /\ metaRole[u] # r
    /\ metaRole' = [metaRole EXCEPT ![u] = r]
    /\ roleChanges' = roleChanges + 1
    /\ UNCHANGED << registrations, session, req, formVars, clientVars >>

\* supabase.auth.getUser(): the user behind the request's token, with the
\* metadata as stored now; null without a token.
NoUserRec == [id |-> NoUser, role |-> Absent]
GetUser(token) ==
    IF token.uid = NoUser THEN NoUserRec
    ELSE [id |-> token.uid, role |-> metaRole[token.uid]]

-----------------------------------------------------------------------------
(* Middleware and the /admin page                                          *)

\* Paths are sequences of path pieces; startsWith is the prefix test on
\* the sequence.
AdminPath == << "/admin" >>
RequestPaths == { AdminPath }

StartsWith(path, prefix) ==
    /\ Len(path) >= Len(prefix)
    /\ SubSeq(path, 1, Len(prefix)) = prefix

\* A middleware that protects /admin only.
MiddlewareRedirectsAdminOnly(user, path) ==
    /\ user.id = NoUser
    /\ ~ StartsWith(path, << "/login" >>)
    /\ ~ StartsWith(path, << "/register" >>)
    /\ StartsWith(path, << "/admin" >>)

\* A middleware that sends every request without user to /login.
MiddlewareRedirectsAll(user, path) == user.id = NoUser

\* updateSession: the condition under which the middleware redirects.
MiddlewareRedirects(user, path) ==
    /\ user.id = NoUser
    /\ ~ StartsWith(path, << "/login" >>)
    /\ ~ StartsWith(path, << "/register" >>)
    /\ \/ StartsWith(path, << "/dashboard" >>)
       \/ StartsWith(path, << "/admin" >>)

\* JavaScript's falsy values among the role values, and a || b.
Falsy(v) == v \in {Absent, JsNull, ""}
OrElse(a, b) == IF Falsy(a) THEN b ELSE a

\* A gate that reads the role without a default and calls a string method
\* on it: undefined and null make it throw.
GateDecisionNoDefault(user) ==
    IF user.id = NoUser THEN "/login"
    ELSE IF user.role \in {Absent, JsNull} THEN "throw"
    ELSE IF user.role # "admin" THEN "/dashboard"
    ELSE "allow"

\* A gate that checks the session but not the role.
GateDecisionNoRole(user) ==
    IF user.id = NoUser THEN "/login" ELSE "allow"

\* AdminPage, from getUser to the role check: where it redirects to, or
\* "allow".
GateDecision(user) ==
    IF user.id = NoUser THEN "/login"
    ELSE IF OrElse(user.role, "user") # "admin" THEN "/dashboard"
    ELSE "allow"

\* The user object of useAuth(): the user of the browser's session.
NavbarUser ==
    IF session = NoSession THEN NoUserRec
    ELSE [id |-> session.uid, role |-> session.role]

\* A navigation bar that shows the Admin link to every user with a role.
NavbarShowsAdminAnyRole(user) == user.id # NoUser /\ ~ Falsy(user.role)

\* Navbar: the condition under which the Admin link is rendered.
NavbarShowsAdmin(user) == user.id # NoUser /\ user.role = "admin"

NoView == [none |-> TRUE]
NoReq == [pc |-> "idle", path |-> << >>, token |-> NoSession,
          user |-> NoUserRec, outcome |-> "none", rows |-> << >>,
          trace |-> << >>, view |-> NoView, hops |-> 0]

\* config.matcher: the middleware runs on every path but those that start
\* with /_next/static, /_next/image or /favicon.ico, or end in an image
\* extension.
Matcher(path) ==
    /\ ~ StartsWith(path, << "/_next/static" >>)
    /\ ~ StartsWith(path, << "/_next/image" >>)
    /\ ~ StartsWith(path, << "/favicon.ico" >>)
    /\ path[Len(path)]
          \notin {".svg", ".png", ".jpg", ".jpeg", ".gif", ".webp"}

\* A request arrives with the browser's cookie.
ReqStart(path) ==
    /\ req.pc = "idle"
    /\ req' = [NoReq EXCEPT
                 !.pc = IF Matcher(path) THEN "middleware" ELSE "page",
                 !.path = path, !.token = session]
    /\ UNCHANGED << registrations, metaRole, session, roleChanges, formVars,
                    clientVars >>

\* middleware -> updateSession
UpdateSession ==
    /\ req.pc = "middleware"
    /\ LET user == GetUser(req.token) IN
       IF MiddlewareRedirects(user, req.path)
       THEN req' = [req EXCEPT !.pc = "done", !.outcome = "/login",
                               !.trace = Append(@, "middleware:redirect")]
       ELSE req' = [req EXCEPT !.pc = "page",
                               !.trace = Append(@, "middleware:next")]
    /\ UNCHANGED << registrations, metaRole, session, roleChanges, formVars,
                    clientVars >>

\* An AdminPage that starts its select before it looks at the user.
AdminPageGateFetchFirst ==
    /\ req.pc = "page"
    /\ req.path = AdminPath
    /\ req' = [req EXCEPT !.pc = "fetch", !.user = GetUser(req.token),
                          !.trace = Append(@, "getUser")]
    /\ UNCHANGED << registrations, metaRole, session, roleChanges, formVars,
                    clientVars >>

\* AdminPage up to the select: getUser resolves, then both checks run.
AdminPageGate ==
    /\ req.pc = "page"
    /\ req.path = AdminPath
    /\ LET user == GetUser(req.token)
           d == GateDecision(user) IN
       IF d = "allow"
       THEN req' = [req EXCEPT !.pc = "fetch", !.user = user,
                               !.trace = Append(@, "gate:allow")]
       ELSE req' = [req EXCEPT !.pc = "done", !.user = user, !.outcome = d,
                               !.trace = Append(@, "gate:redirect")]
    /\ UNCHANGED << registrations, metaRole, session, roleChanges, formVars,
                    clientVars >>

\* An AdminPage that throws on a failing fetch.
AdminPageFetchThrows(fails) ==
    /\ req.pc = "fetch"
    /\ req' = [req EXCEPT
                 !.pc = "done",
                 !.outcome = IF fails THEN "error" ELSE "render",
                 !.rows = IF fails THEN << >>
                          ELSE OrderByDateDesc(
                                   SelectVisible(registrations, req.token)),
                 !.trace = Append(@, IF fails THEN "select:error"
                                     ELSE "select:ok")]
    /\ UNCHANGED << registrations, metaRole, session, roleChanges, formVars,
                    clientVars >>

\* AdminPage from the select to the render.  A failing fetch is logged and
\* the table gets registrations || [].
AdminPageFetch(fails) ==
    /\ req.pc = "fetch"
    /\ req' = [req EXCEPT
                 !.pc = "done", !.outcome = "render",
                 !.rows = IF fails THEN << >>
                          ELSE OrderByDateDesc(
                                   SelectVisible(registrations, req.token)),
                 !.trace = Append(@, IF fails THEN "select:error"
                                     ELSE "select:ok")]
    /\ UNCHANGED << registrations, metaRole, session, roleChanges, formVars,
                    clientVars >>

\* The response has been delivered; the next request may start.
ReqEnd ==
    /\ req.pc = "done"
    /\ req' = NoReq
    /\ UNCHANGED << registrations, metaRole, session, roleChanges, formVars,
                    clientVars >>

-----------------------------------------------------------------------------
(* The registration form: schema                                           *)

Letters == {"a", "b", "c", "o", "A", "l", "J"}
Digits == {"5", "7"}
AlNum == Letters \cup Digits

\* z.string().email(): one "@", a non-empty local part that neither starts
\* nor ends with "." and has no "..", and a domain of dot-separated labels
\* that ends in a top-level label of at least two letters.
IsEmail(s) ==
    \E i \in 2..Len(s) :
        /\ s[i] = "@"
        /\ \A j \in 1..(i - 1) : s[j] \in AlNum \cup {".", "_", "+", "-"}
        /\ s[1] # "." /\ s[i - 1] # "."
        /\ \A j \in 1..(i - 2) : ~ (s[j] = "." /\ s[j + 1] = ".")
        /\ \E k \in (i + 2)..(Len(s) - 2) :
              /\ s[k] = "."
              /\ \A j \in (k + 1)..Len(s) : s[j] \in Letters
              /\ s[i + 1] \in AlNum
              /\ \A j \in (i + 1)..(k - 1) :
                    /\ s[j] \in AlNum \cup {"-", "."}
                    /\ s[j] = "." => s[j + 1] \in AlNum

\* A schema whose full name needs one character only.
ValidFieldNameMin1(field, v) ==
    CASE field = "fullName"         -> Len(v) >= 1
      [] field = "corporateEmail"   -> IsEmail(v)
      [] field = "employeeId"       -> Len(v) >= 1
      [] field = "companyName"      -> Len(v) >= 2
      [] field = "tshirtSize"       -> v \in TshirtSizes
      [] field = "emergencyContact" -> Len(v) >= 2
      [] field = "emergencyPhone"   -> Len(v) >= 10

\* registrationSchema, field by field.
ValidField(field, v) ==
    CASE field = "fullName"         -> Len(v) >= 2
      [] field = "corporateEmail"   -> IsEmail(v)
      [] field = "employeeId"       -> Len(v) >= 1
      [] field = "companyName"      -> Len(v) >= 2
      [] field = "tshirtSize"       -> v \in TshirtSizes
      [] field = "emergencyContact" -> Len(v) >= 2
      [] field = "emergencyPhone"   -> Len(v) >= 10

\* The resolver run on a whole value object: the fields in error.
SchemaErrors(values) == { fld \in Fields : ~ ValidField(fld, values[fld]) }

\* validateStep that validates the whole form at every step.
StepFieldsAll(step) == Fields

\* validateStep: the fields of a step.
StepFields(step) ==
    CASE step = 1 -> {"fullName", "corporateEmail", "employeeId"}
      [] step = 2 -> {"companyName"}
      [] step = 3 -> {"tshirtSize", "emergencyContact", "emergencyPhone"}
      [] OTHER -> {}

Phone10 == << "5", "5", "5", "5", "5", "5", "5", "5", "5", "5" >>
Email1 == << "a", "@", "b", ".", "c", "o" >>

\* An untouched form: empty inputs, no size selected.
EmptyValues ==
    [fld \in Fields |-> IF fld = "tshirtSize" THEN "" ELSE << >>]

\* What a user enters in the inputs of a step.  Steps 2 and 3 start out
\* invalid (empty); step 1 can also be filled in with a name that is too
\* short, and step 2 can be cleared again.
ValidInput(step) ==
    CASE step = 1 -> ("fullName" :> << "A", "l" >>)
                     @@ ("corporateEmail" :> Email1)
                     @@ ("employeeId" :> << "7" >>)
      [] step = 2 -> ("companyName" :> << "A", "c" >>)
      [] step = 3 -> ("tshirtSize" :> "M")
                     @@ ("emergencyContact" :> << "J", "o" >>)
                     @@ ("emergencyPhone" :> Phone10)

StepInputs(step) ==
    CASE step = 1 -> { ValidInput(1),
                       [ValidInput(1) EXCEPT !["fullName"] = << "A" >>] }
      [] step = 2 -> { ValidInput(2), ("companyName" :> << >>) }
      [] step = 3 -> { ValidInput(3) }

\* An insert object with another status.
RowPending(userId, data, now) ==
    [user_id |-> userId,
     full_name |-> data["fullName"],
     corporate_email |-> data["corporateEmail"],
     employee_id |-> data["employeeId"],
     company_name |-> data["companyName"],
     tshirt_size |-> data["tshirtSize"],
     emergency_contact |-> data["emergencyContact"],
     emergency_phone |-> data["emergencyPhone"],
     registration_date |-> now,
     status |-> "pending"]

\* The object onSubmit inserts.
Row(userId, data, now) ==
    [user_id |-> userId,
     full_name |-> data["fullName"],
     corporate_email |-> data["corporateEmail"],
     employee_id |-> data["employeeId"],
     company_name |-> data["companyName"],
     tshirt_size |-> data["tshirtSize"],
     emergency_contact |-> data["emergencyContact"],
     emergency_phone |-> data["emergencyPhone"],
     registration_date |-> now,
     status |-> "confirmed"]

-----------------------------------------------------------------------------
(* The registration form: state and handlers                               *)

NoError == JsNull
FallbackMessage == "An error occurred while submitting your registration"

\* The state of a RegistrationForm the dashboard has just rendered for u.
\* results lists the outcomes of the inserts of this instance that have
\* resolved (observation only).
NewForm(u) ==
    [mounted |-> TRUE, userId |-> u, currentStep |-> 1, loading |-> FALSE,
     error |-> NoError, values |-> EmptyValues, errors |-> {},
     refreshing |-> FALSE, results |-> << >>]

NoForm == [NewForm(NoUser) EXCEPT !.mounted = FALSE]

\* The user fills in the inputs of the step on screen.  mode "onChange":
\* each changed field is validated and its error set or cleared.
EditStep(f, input) ==
    /\ form[f].mounted
    /\ LET old == form[f].values
           changed == { fld \in DOMAIN input : input[fld] # old[fld] } IN
       /\ changed # {}
       /\ form' = [form EXCEPT
             ![f].values = [fld \in Fields |->
                              IF fld \in changed THEN input[fld]
                              ELSE old[fld]],
             ![f].errors =
                 (@ \ changed)
                 \cup { fld \in changed : ~ ValidField(fld, input[fld]) }]
    /\ UNCHANGED << registrations, gateVars, pending, inflight, clock,
                    clientVars >>

\* nextStep up to "await validateStep(currentStep)": the closure's
\* currentStep and the values handed to trigger are fixed here.  The Next
\* button is rendered at steps 1 and 2; a call at step 3 meets the
\* handler's own guard.
NextStepCall(f) ==
    /\ form[f].mounted
    /\ Len(pending[f]) < MaxPending
    /\ LET step == form[f].currentStep IN
       pending' = [pending EXCEPT ![f] = Append(@,
           [kind |-> "next", step |-> step,
            fields |-> StepFields(step),
            errs |-> SchemaErrors(form[f].values) \cap StepFields(step),
            data |-> EmptyValues])]
    /\ UNCHANGED << registrations, gateVars, form, inflight, clock,
                    clientVars >>

\* nextStep after the await: trigger has set the errors of the fields it
\* was given; the step advances from the closure's currentStep.
NextStepResume(f) ==
    /\ pending[f] # << >>
    /\ Head(pending[f]).kind = "next"
    /\ LET p == Head(pending[f])
           isValid == p.errs = {} IN
       form' = [form EXCEPT
                  ![f].errors = (@ \ p.fields) \cup p.errs,
                  ![f].currentStep =
                      IF isValid /\ p.step < 3 THEN p.step + 1 ELSE @,
                  ![f].error =
                      IF isValid /\ p.step < 3 THEN NoError ELSE @]
    /\ pending' = [pending EXCEPT ![f] = Tail(@)]
    /\ UNCHANGED << registrations, gateVars, inflight, clock, clientVars >>

\* A prevStep that also resets the form's values.
PrevStepResets(f) ==
    /\ form[f].mounted
    /\ form[f].currentStep > 1
    /\ form' = [form EXCEPT ![f].currentStep = @ - 1, ![f].error = NoError,
                            ![f].values = EmptyValues]
    /\ UNCHANGED << registrations, gateVars, pending, inflight, clock,
                    clientVars >>

\* prevStep.  The Previous button is disabled at step 1.
PrevStep(f) ==
    /\ form[f].mounted
    /\ form[f].currentStep > 1
    /\ form' = [form EXCEPT ![f].currentStep = @ - 1, ![f].error = NoError]
    /\ UNCHANGED << registrations, gateVars, pending, inflight, clock,
                    clientVars >>

\* When the browser fires the form's submit event: at step 3 through the
\* submit button, which is disabled while loading (a click, or Enter in an
\* input, which activates the default button); at step 2 through Enter in
\* the only text input of a form that has no submit button.  Step 1 has
\* three text inputs and no submit button, so Enter does not submit.
SubmitEventPossible(fs) ==
    \/ fs.currentStep = 3 /\ ~ fs.loading
    \/ fs.currentStep = 2

\* A handleSubmit that validates the fields of the step on screen only.
SubmitEventStepOnly(f) ==
    /\ form[f].mounted
    /\ SubmitEventPossible(form[f])
    /\ Len(pending[f]) < MaxPending
    /\ pending' = [pending EXCEPT ![f] = Append(@,
           [kind |-> "submit", step |-> form[f].currentStep,
            fields |-> Fields,
            errs |-> SchemaErrors(form[f].values)
                        \cap StepFields(form[f].currentStep),
            data |-> form[f].values])]
    /\ UNCHANGED << registrations, gateVars, form, inflight, clock,
                    clientVars >>

\* handleSubmit(onSubmit) up to "await resolver": the values are handed to
\* the resolver here.  step records where the event happened.
SubmitEvent(f) ==
    /\ form[f].mounted
    /\ SubmitEventPossible(form[f])
    /\ Len(pending[f]) < MaxPending
    /\ pending' = [pending EXCEPT ![f] = Append(@,
           [kind |-> "submit", step |-> form[f].currentStep,
            fields |-> Fields,
            errs |-> SchemaErrors(form[f].values),
            data |-> form[f].values])]
    /\ UNCHANGED << registrations, gateVars, form, inflight, clock,
                    clientVars >>

\* handleSubmit after the await.  Invalid data: the errors of all fields
\* are set and onSubmit is not called.  Valid data: onSubmit runs up to
\* "await supabase.from(...).insert(...)", i.e. it clears the error, sets
\* loading and sends the insert with the session of that moment.
SubmitResume(f) ==
    /\ pending[f] # << >>
    /\ Head(pending[f]).kind = "submit"
    /\ LET p == Head(pending[f]) IN
       IF p.errs # {}
       THEN /\ form' = [form EXCEPT ![f].errors = p.errs]
            /\ UNCHANGED << inflight, clock >>
       ELSE /\ clock < MaxClock
            /\ Len(inflight) < MaxInflight
            /\ form' = [form EXCEPT ![f].errors = {},
                                    ![f].error = NoError,
                                    ![f].loading = TRUE]
            /\ clock' = clock + 1
            /\ inflight' = Append(inflight,
                   [form |-> f, step |-> p.step,
                    row |-> Row(form[f].userId, p.data, clock + 1),
                    token |-> session, state |-> "sent",
                    outcome |-> "none"])
    /\ pending' = [pending EXCEPT ![f] = Tail(@)]
    /\ UNCHANGED << registrations, gateVars, clientVars >>

\* The store executes an insert that has arrived, as one transaction.
StoreInsert(i) ==
    /\ i \in 1..Len(inflight)
    /\ inflight[i].state = "sent"
    /\ LET x == inflight[i] IN
       /\ registrations' = InsertRows(registrations, x.row, x.token)
       /\ inflight' = [inflight EXCEPT
              ![i].state = "answered",
              ![i].outcome = InsertOutcome(registrations, x.row, x.token)]
    /\ UNCHANGED << gateVars, form, pending, clock, clientVars >>

RemoveAt(seq, i) == SubSeq(seq, 1, i - 1) \o SubSeq(seq, i + 1, Len(seq))

\* An onSubmit that does not look at insertError: it refreshes whatever the
\* store answered.
InsertResumeIgnoresError(i) ==
    /\ i \in 1..Len(inflight)
    /\ inflight[i].state = "answered"
    /\ inflight[i].form \in Forms
    /\ LET x == inflight[i]
           f == x.form IN
       form' = [form EXCEPT
                  ![f].refreshing = TRUE,
                  ![f].loading = FALSE,
                  ![f].results = Append(@, x.outcome)]
    /\ inflight' = RemoveAt(inflight, i)
    /\ UNCHANGED << registrations, gateVars, pending, clock, clientVars >>

\* An onSubmit whose catch block shows its own text for every error.
InsertResumeGeneric(i) ==
    /\ i \in 1..Len(inflight)
    /\ inflight[i].state = "answered"
    /\ inflight[i].form \in Forms
    /\ LET x == inflight[i]
           f == x.form IN
       form' = [form EXCEPT
                  ![f].error = IF x.outcome # "ok" THEN FallbackMessage ELSE @,
                  ![f].refreshing = IF x.outcome = "ok" THEN TRUE ELSE @,
                  ![f].loading = FALSE,
                  ![f].results = Append(@, x.outcome)]
    /\ inflight' = RemoveAt(inflight, i)
    /\ UNCHANGED << registrations, gateVars, pending, clock, clientVars >>

\* onSubmit after the await: throw and catch on an error, router.refresh()
\* otherwise, and setLoading(false) in the finally block.
InsertResume(i) ==
    /\ i \in 1..Len(inflight)
    /\ inflight[i].state = "answered"
    /\ inflight[i].form \in Forms
    /\ LET x == inflight[i]
           f == x.form IN
       form' = [form EXCEPT
                  ![f].error =
                      IF x.outcome # "ok"
                      THEN OrElse(ErrorMessage(x.outcome), FallbackMessage)
                      ELSE @,
                  ![f].refreshing = IF x.outcome = "ok" THEN TRUE ELSE @,
                  ![f].loading = FALSE,
                  ![f].results = Append(@, x.outcome)]
    /\ inflight' = RemoveAt(inflight, i)
    /\ UNCHANGED << registrations, gateVars, pending, clock, clientVars >>

\* .eq("user_id", id).single(): the row, when exactly one visible row
\* matches; an error otherwise.
HasRegistered(rows, token, id) ==
    Len(RowsOf(SelectVisible(rows, token), id)) = 1

\* router.refresh(): the dashboard is fetched again with the current
\* session.  Without a user it redirects; with a registration it shows the
\* status card; otherwise the form stays, with its state.
RouterRefresh(f) ==
    /\ form[f].refreshing
    /\ LET user == GetUser(session)
           gone == \/ user.id = NoUser
                   \/ HasRegistered(registrations, session, user.id) IN
       form' = [form EXCEPT
                  ![f].refreshing = FALSE,
                  ![f].mounted = IF gone THEN FALSE ELSE @,
                  ![f].userId = IF gone THEN @ ELSE user.id]
    /\ UNCHANGED << registrations, gateVars, pending, inflight, clock,
                    clientVars >>

-----------------------------------------------------------------------------
(* Other clients of the store                                              *)

\* Rows a client can send to the store's insert endpoint on its own: any
\* owner, a size inside or outside the CHECK list.
ApiRow(u, size, now) ==
    [user_id |-> u, full_name |-> << "A", "l" >>,
     corporate_email |-> Email1,
     employee_id |-> << "7" >>, company_name |-> << "A", "c" >>,
     tshirt_size |-> size, emergency_contact |-> << "J", "o" >>,
     emergency_phone |-> Phone10, registration_date |-> now,
     status |-> "confirmed"]

\* insert(row) called with the browser's session, outside any form.
ApiInsert(u, size) ==
    /\ clock < MaxClock
    /\ Len(inflight) < MaxInflight
    /\ clock' = clock + 1
    /\ inflight' = Append(inflight,
           [form |-> 0, step |-> 0, row |-> ApiRow(u, size, clock + 1),
            token |-> session, state |-> "sent", outcome |-> "none"])
    /\ UNCHANGED << registrations, gateVars, form, pending, clientVars >>

\* The answer reaches the client.
ApiInsertEnd(i) ==
    /\ i \in 1..Len(inflight)
    /\ inflight[i].state = "answered"
    /\ inflight[i].form = 0
    /\ inflight' = RemoveAt(inflight, i)
    /\ UNCHANGED << registrations, gateVars, form, pending, clock,
                    clientVars >>

\* from("registrations").select("*") called with the browser's session.
NoResult == [token |-> NoSession, rows |-> << >>, of |-> << >>]
ApiSelect ==
    /\ apiResult = NoResult
    /\ apiResult' = [token |-> session,
                     rows |-> SelectVisible(registrations, session),
                     of |-> registrations]
    /\ UNCHANGED << registrations, gateVars, formVars, table >>

\* The client has used the result.
ApiSelectEnd ==
    /\ apiResult # NoResult
    /\ apiResult' = NoResult
    /\ UNCHANGED << registrations, gateVars, formVars, table >>

-----------------------------------------------------------------------------
(* The dashboard page                                                      *)

DashPath == << "/dashboard" >>
PagePaths == { AdminPath, DashPath }

\* Timestamps are ticks of the clock; toLocaleDateString keeps the day.
TicksPerDay == 2
LocaleDate(t) == [day |-> t \div TicksPerDay]

\* String.prototype.toUpperCase on the status values.
ToUpperCase(status) ==
    CASE status = "confirmed" -> "CONFIRMED"
      [] status = "pending"   -> "PENDING"
      [] status = "cancelled" -> "CANCELLED"
      [] OTHER -> status

\* A status card that prints the contact's name where the phone belongs.
StatusCardContactTwice(registration) ==
    [status |-> IF registration.status = ""
                THEN "CONFIRMED" ELSE ToUpperCase(registration.status),
     registration_date |-> LocaleDate(registration.registration_date),
     tshirt_size |-> IF registration.tshirt_size = ""
                     THEN "N/A" ELSE registration.tshirt_size,
     full_name |-> registration.full_name,
     corporate_email |-> registration.corporate_email,
     employee_id |-> registration.employee_id,
     company_name |-> registration.company_name,
     emergency_contact |-> registration.emergency_contact,
     emergency_phone |-> registration.emergency_contact]

\* The status card: what it prints of the registration.
StatusCard(registration) ==
    [status |-> IF registration.status = ""
                THEN "CONFIRMED" ELSE ToUpperCase(registration.status),
     registration_date |-> LocaleDate(registration.registration_date),
     tshirt_size |-> IF registration.tshirt_size = ""
                     THEN "N/A" ELSE registration.tshirt_size,
     full_name |-> registration.full_name,
     corporate_email |-> registration.corporate_email,
     employee_id |-> registration.employee_id,
     company_name |-> registration.company_name,
     emergency_contact |-> registration.emergency_contact,
     emergency_phone |-> registration.emergency_phone]

\* Dashboard up to the lookup: getUser resolves and a request without user
\* is redirected.
DashboardGate ==
    /\ req.pc = "page"
    /\ req.path = DashPath
    /\ LET user == GetUser(req.token) IN
       IF user.id = NoUser
       THEN req' = [req EXCEPT !.pc = "done", !.user = user,
                               !.outcome = "/login",
                               !.trace = Append(@, "dashboard:redirect")]
       ELSE req' = [req EXCEPT !.pc = "lookup", !.user = user,
                               !.trace = Append(@, "dashboard:user")]
    /\ UNCHANGED << registrations, metaRole, session, roleChanges, formVars,
                    clientVars >>

\* A dashboard that takes a failed lookup for a registration.
DashboardLookupNoErrorCheck(fails) ==
    /\ req.pc = "lookup"
    /\ LET found == RowsOf(SelectVisible(registrations, req.token),
                           req.user.id) IN
       req' = [req EXCEPT
                 !.pc = "done", !.outcome = "card",
                 !.rows = IF fails THEN << >> ELSE found,
                 !.view = IF fails \/ found = << >> THEN NoView
                          ELSE StatusCard(found[1]),
                 !.trace = Append(@, IF fails THEN "lookup:error"
                                     ELSE "lookup:ok")]
    /\ UNCHANGED << registrations, metaRole, session, roleChanges, formVars,
                    clientVars >>

\* Dashboard from the lookup to the render.  single() gives the row when
\* exactly one row comes back and an error otherwise; a lookup can also
\* fail on its way.  hasRegistered = !!registration && !error.
DashboardLookup(fails) ==
    /\ req.pc = "lookup"
    /\ LET found == RowsOf(SelectVisible(registrations, req.token),
                           req.user.id)
           hasRegistered ==
               ~ fails /\ HasRegistered(registrations, req.token, req.user.id)
       IN
       req' = [req EXCEPT
                 !.pc = "done",
                 !.outcome = IF hasRegistered THEN "card" ELSE "form",
                 !.rows = IF hasRegistered THEN found ELSE << >>,
                 !.view = IF hasRegistered THEN StatusCard(found[1])
                          ELSE NoView,
                 !.trace = Append(@, IF fails THEN "lookup:error"
                                     ELSE "lookup:ok")]
    /\ UNCHANGED << registrations, metaRole, session, roleChanges, formVars,
                    clientVars >>

-----------------------------------------------------------------------------
(* The admin table: filter and export                                      *)

Upper == << "A", "B", "C", "D", "E", "F", "G", "H", "I", "J", "K", "L", "M",
            "N", "O", "P", "Q", "R", "S", "T", "U", "V", "W", "X", "Y", "Z" >>
Lower == << "a", "b", "c", "d", "e", "f", "g", "h", "i", "j", "k", "l", "m",
            "n", "o", "p", "q", "r", "s", "t", "u", "v", "w", "x", "y", "z" >>

\* String.prototype.toLowerCase, character by character.
ToLowerCase(text) ==
    [i \in 1..Len(text) |->
        IF \E k \in 1..26 : Upper[k] = text[i]
        THEN Lower[CHOOSE k \in 1..26 : Upper[k] = text[i]]
        ELSE text[i]]

\* String.prototype.trim: white space is removed at both ends.
WhiteSpace == {" ", "\t", "\n"}

RECURSIVE TrimStart(_)
TrimStart(text) ==
    IF text # << >> /\ Head(text) \in WhiteSpace
    THEN TrimStart(Tail(text)) ELSE text

RECURSIVE TrimEnd(_)
TrimEnd(text) ==
    IF text # << >> /\ text[Len(text)] \in WhiteSpace
    THEN TrimEnd(SubSeq(text, 1, Len(text) - 1)) ELSE text

Trim(text) == TrimEnd(TrimStart(text))

\* String.prototype.includes
Includes(text, part) ==
    \E i \in 1..(Len(text) - Len(part) + 1) :
        SubSeq(text, i, i + Len(part) - 1) = part

\* A filter that tests the query for emptiness without trimming it.
FilteredRegistrationsNoTrim(rows, searchQuery) ==
    IF searchQuery = << >> THEN rows
    ELSE SelectSeq(rows, LAMBDA reg :
             Includes(ToLowerCase(reg.company_name),
                      ToLowerCase(searchQuery)))

\* A filter that compares without lowering the case.
FilteredRegistrationsCaseSensitive(rows, searchQuery) ==
    IF Trim(searchQuery) = << >> THEN rows
    ELSE SelectSeq(rows, LAMBDA reg :
             Includes(reg.company_name, searchQuery))

\* filteredRegistrations, the useMemo body.
FilteredRegistrations(rows, searchQuery) ==
    IF Trim(searchQuery) = << >> THEN rows
    ELSE SelectSeq(rows, LAMBDA reg :
             Includes(ToLowerCase(reg.company_name),
                      ToLowerCase(searchQuery)))

\* The export is a text: a sequence of characters in which a header name,
\* a size, a status and a date each stand as one piece.
headers == << "Full Name", "Corporate Email", "Employee ID", "Company Name",
              "T-shirt Size", "Emergency Contact", "Emergency Phone",
              "Registration Date", "Status" >>

\* Array.prototype.join on texts.
RECURSIVE Join(_, _)
Join(parts, sep) ==
    IF parts = << >> THEN << >>
    ELSE IF Len(parts) = 1 THEN parts[1]
    ELSE parts[1] \o << sep >> \o Join(Tail(parts), sep)

\* `"${value}"`
Quoted(text) == << "\"" >> \o text \o << "\"" >>

\* new Date(registration_date).toLocaleDateString()
LocaleDateShort(t) == "day " \o ToString(t \div TicksPerDay)

\* One element of csvRows for a registration.
CsvRow(reg) ==
    Join(<< Quoted(reg.full_name),
            Quoted(reg.corporate_email),
            Quoted(reg.employee_id),
            Quoted(reg.company_name),
            << reg.tshirt_size >>,
            Quoted(reg.emergency_contact),
            Quoted(reg.emergency_phone),
            << LocaleDateShort(reg.registration_date) >>,
            << reg.status >> >>, ",")

\* csvContent for the rows on screen.
CsvContent(rows) ==
    Join(<< Join([i \in 1..Len(headers) |-> << headers[i] >>], ",") >>
         \o [i \in 1..Len(rows) |-> CsvRow(rows[i])], "\n")

\* The state of AdminTable: its prop, the query, the memoized view and the
\* content of the last file it handed to the browser.
NoTable == [mounted |-> FALSE, registrations |-> << >>,
            searchQuery |-> << >>, filtered |-> << >>, csv |-> << >>]

NewTable(rows) ==
    [mounted |-> TRUE, registrations |-> rows, searchQuery |-> << >>,
     filtered |-> FilteredRegistrations(rows, << >>), csv |-> << >>]

\* onChange of the search input, and the render that follows it.
SetSearchQuery(q) ==
    /\ table.mounted
    /\ q # table.searchQuery
    /\ table' = [table EXCEPT
                   !.searchQuery = q,
                   !.filtered = FilteredRegistrations(table.registrations, q)]
    /\ UNCHANGED << registrations, gateVars, formVars, apiResult >>

\* An export of all the rows, whatever the query.
HandleExportCSVAll ==
    /\ table.mounted
    /\ table' = [table EXCEPT !.csv = CsvContent(table.registrations)]
    /\ UNCHANGED << registrations, gateVars, formVars, apiResult >>

\* handleExportCSV
HandleExportCSV ==
    /\ table.mounted
    /\ table' = [table EXCEPT !.csv = CsvContent(table.filtered)]
    /\ UNCHANGED << registrations, gateVars, formVars, apiResult >>

-----------------------------------------------------------------------------
(* Specifications                                                          *)

NoForms == [f \in Forms |-> NoForm]
NoPending == [f \in Forms |-> << >>]

\* Stores the application can have reached when a request arrives: no row,
\* or one row per registered user, in either order of registration.
SeedStores ==
    { << >>,
      << ApiRow("u1", "M", 1) >>,
      << ApiRow("u2", "L", 1) >>,
      << ApiRow("u1", "M", 1), ApiRow("u2", "L", 2) >>,
      << ApiRow("u2", "L", 1), ApiRow("u1", "M", 2) >> }

\* Spec: sessions, roles and requests to /admin, over a store that holds
\* the registrations made so far.
Init ==
    /\ registrations \in SeedStores
    /\ metaRole = [u \in Users |-> Absent]
    /\ session = NoSession
    /\ req = NoReq
    /\ form = NoForms
    /\ pending = NoPending
    /\ inflight = << >>
    /\ clock = Len(registrations)
    /\ apiResult = NoResult
    /\ roleChanges = 0
    /\ table = NoTable

Next ==
    \/ \E u \in Users : SignIn(u)
    \/ SignOut
    \/ RefreshToken
    \/ \E u \in Users, r \in RoleValues : ExternalSetRole(u, r)
    \/ \E path \in RequestPaths : ReqStart(path)
    \/ UpdateSession
    \/ AdminPageGate
    \/ \E fails \in BOOLEAN : AdminPageFetch(fails)
    \/ ReqEnd

Spec == Init /\ [][Next]_vars

\* SpecStore: the store behind its REST interface, called by clients with
\* any session: inserts of any row, and selects.
InitStore ==
    /\ registrations = << >>
    /\ metaRole = [u \in Users |-> Absent]
    /\ session = NoSession
    /\ req = NoReq
    /\ form = NoForms
    /\ pending = NoPending
    /\ inflight = << >>
    /\ clock = 0
    /\ apiResult = NoResult
    /\ roleChanges = 0
    /\ table = NoTable

NextStore ==
    \/ /\ apiResult = NoResult
       /\ \/ \E u \in Users : SignIn(u)
          \/ SignOut
          \/ \E u \in Users : ExternalSetRole(u, "admin")
          \/ \E u \in Users, size \in {"M", "XXL"} : ApiInsert(u, size)
          \/ \E i \in 1..MaxInflight : StoreInsert(i)
          \/ \E i \in 1..MaxInflight : ApiInsertEnd(i)
          \/ ApiSelect
    \/ ApiSelectEnd

SpecStore == InitStore /\ [][NextStore]_vars

\* SpecForm: one form instance, rendered by the dashboard for u1, who is
\* signed in.
InitForm ==
    /\ registrations = << >>
    /\ metaRole = [u \in Users |-> Absent]
    /\ session = [uid |-> "u1", role |-> Absent]
    /\ req = NoReq
    /\ form = [f \in Forms |-> IF f = 1 THEN NewForm("u1") ELSE NoForm]
    /\ pending = NoPending
    /\ inflight = << >>
    /\ clock = 0
    /\ apiResult = NoResult
    /\ roleChanges = 0
    /\ table = NoTable

NextForm ==
    \/ \E f \in Forms :
          \E input \in StepInputs(form[f].currentStep) : EditStep(f, input)
    \/ \E f \in Forms : NextStepCall(f)
    \/ \E f \in Forms : NextStepResume(f)
    \/ \E f \in Forms : PrevStep(f)
    \/ \E f \in Forms : SubmitEvent(f)
    \/ \E f \in Forms : SubmitResume(f)
    \/ \E i \in 1..MaxInflight : StoreInsert(i)
    \/ \E i \in 1..MaxInflight : InsertResume(i)
    \/ \E f \in Forms : RouterRefresh(f)

SpecForm == InitForm /\ [][NextForm]_vars

\* SpecFields: one form instance whose inputs take values on both sides of
\* each validator's boundary, one field of the step at a time off its
\* valid value; the user moves between the steps with Next and Previous.
Phone9 == SubSeq(Phone10, 1, 9)
BadEmail == << "a", "@", "b" >>

FieldInputs(step) ==
    CASE step = 1 ->
             { ValidInput(1),
               [ValidInput(1) EXCEPT !["fullName"] = << "A" >>],
               [ValidInput(1) EXCEPT !["corporateEmail"] = BadEmail],
               [ValidInput(1) EXCEPT !["employeeId"] = << >>] }
      [] step = 2 ->
             { ValidInput(2), ("companyName" :> << "A" >>),
               ("companyName" :> << >>) }
      [] step = 3 ->
             { ValidInput(3),
               [ValidInput(3) EXCEPT !["tshirtSize"] = "XL"],
               [ValidInput(3) EXCEPT !["emergencyContact"] = << "J" >>],
               [ValidInput(3) EXCEPT !["emergencyPhone"] = Phone9] }

NextFields ==
    \/ \E f \in Forms :
          \E input \in FieldInputs(form[f].currentStep) : EditStep(f, input)
    \/ \E f \in Forms : NextStepCall(f)
    \/ \E f \in Forms : NextStepResume(f)
    \/ \E f \in Forms : PrevStep(f)

SpecFields == InitForm /\ [][NextFields]_vars

\* SpecTabs: two form instances of the same user, one per browser tab,
\* each filled in with valid values and on its last step.
FilledForm(u) ==
    [NewForm(u) EXCEPT
       !.currentStep = 3,
       !.values = ValidInput(1) @@ ValidInput(2) @@ ValidInput(3)]

InitTabs ==
    /\ registrations = << >>
    /\ metaRole = [u \in Users |-> Absent]
    /\ session = [uid |-> "u1", role |-> Absent]
    /\ req = NoReq
    /\ form = [f \in Forms |-> FilledForm("u1")]
    /\ pending = NoPending
    /\ inflight = << >>
    /\ clock = 0
    /\ apiResult = NoResult
    /\ roleChanges = 0
    /\ table = NoTable

NextTabs ==
    \/ \E f \in Forms : SubmitEvent(f)
    \/ \E f \in Forms : SubmitResume(f)
    \/ \E i \in 1..MaxInflight : StoreInsert(i)
    \/ \E i \in 1..MaxInflight : InsertResume(i)
    \/ \E f \in Forms : RouterRefresh(f)

SpecTabs == InitTabs /\ [][NextTabs]_vars

\* SpecTable: an AdminTable over the rows the admin page passed to it.
\* The rows come newest first; two of the names hold a comma or a quote.
MaxQueryLen == 2
QueryChars == {"a", "C", " ", "t"}
Queries == UNION { [1..n -> QueryChars] : n \in 0..MaxQueryLen }

TableRow(u, name, company, now) ==
    [ApiRow(u, "M", now) EXCEPT !.full_name = name, !.company_name = company]

AllTableRows ==
    << TableRow("u4", << "a", "c", "m", "e" >>, << "O", "t" >>, 4),
       TableRow("u3", << "B", ",", "o" >>, << "O", "t", "h", "e", "r" >>, 3),
       TableRow("u2", << "J", "\"", "o" >>,
                << "a", "c", "m", "e", " ", "L", "a", "b", "s" >>, 2),
       TableRow("u1", << "A", "l" >>, << "A", "c", "m", "e" >>, 1) >>

\* The rows of a list whose positions are in keep, in the list's order.
Pick(rows, keep) ==
    LET F[i \in 0..Len(rows)] ==
            IF i = 0 THEN << >>
            ELSE IF i \in keep THEN Append(F[i - 1], rows[i]) ELSE F[i - 1]
    IN F[Len(rows)]

TableRowLists ==
    { Pick(AllTableRows, keep) : keep \in SUBSET (1..Len(AllTableRows)) }

InitTable ==
    /\ registrations = << >>
    /\ metaRole = [u \in Users |-> Absent]
    /\ session = NoSession
    /\ req = NoReq
    /\ form = NoForms
    /\ pending = NoPending
    /\ inflight = << >>
    /\ clock = 0
    /\ apiResult = NoResult
    /\ roleChanges = 0
    /\ table \in { NewTable(rows) : rows \in TableRowLists }

NextTable ==
    \/ \E q \in Queries : SetSearchQuery(q)
    \/ HandleExportCSV

SpecTable == InitTable /\ [][NextTable]_vars

\* SpecPages: requests to /admin and /dashboard, whose reads can fail, over
\* a store that holds the registrations made so far.
NextPages ==
    \/ \E u \in Users : SignIn(u)
    \/ SignOut
    \/ RefreshToken
    \/ \E u \in Users : ExternalSetRole(u, "admin")
    \/ \E path \in PagePaths : ReqStart(path)
    \/ UpdateSession
    \/ AdminPageGate
    \/ \E fails \in BOOLEAN : AdminPageFetch(fails)
    \/ DashboardGate
    \/ \E fails \in BOOLEAN : DashboardLookup(fails)
    \/ ReqEnd

SpecPages == Init /\ [][NextPages]_vars

\* SpecLife: the application in one browser tab, from signup to the
\* admin's export.  A response is shown when its request is done: the
\* dashboard mounts the form for the user it was rendered for, or shows
\* the card; the admin page mounts the table over the rows it fetched.
\* The tab shows one page at a time; a request is served from start to
\* end before the next thing happens in the browser, and the user
\* navigates, signs up, in or out while the page is at rest (no validation
\* pending, no insert under way).
DashboardShow ==
    /\ req.pc = "done"
    /\ req.path = DashPath
    /\ req.outcome \in {"form", "card"}
    /\ form' = [form EXCEPT
                  ![1] = IF req.outcome = "form" THEN NewForm(req.user.id)
                         ELSE NoForm]
    /\ pending' = [pending EXCEPT ![1] = << >>]
    /\ table' = NoTable
    /\ req' = NoReq
    /\ UNCHANGED << registrations, metaRole, session, roleChanges, inflight,
                    clock, apiResult >>

AdminShow ==
    /\ req.pc = "done"
    /\ req.path = AdminPath
    /\ req.outcome = "render"
    /\ table' = NewTable(req.rows)
    /\ form' = NoForms
    /\ pending' = NoPending
    /\ req' = NoReq
    /\ UNCHANGED << registrations, metaRole, session, roleChanges, inflight,
                    clock, apiResult >>

LifeQueries == { << >>, << "a" >> }

InitLife ==
    /\ registrations \in { << >>, << ApiRow("u2", "L", 1) >> }
    /\ metaRole = [u \in Users |-> IF u = "u1" THEN NoAccount ELSE "admin"]
    /\ session = NoSession
    /\ req = NoReq
    /\ form = NoForms
    /\ pending = NoPending
    /\ inflight = << >>
    /\ clock = Len(registrations)
    /\ apiResult = NoResult
    /\ roleChanges = 0
    /\ table = NoTable

AtRest == req.pc = "idle" /\ pending = NoPending /\ inflight = << >>

NextLife ==
    \/ AtRest /\ \E path \in PagePaths : ReqStart(path)
    \/ UpdateSession
    \/ AdminPageGate
    \/ \E fails \in BOOLEAN : AdminPageFetch(fails)
    \/ DashboardGate
    \/ \E fails \in BOOLEAN : DashboardLookup(fails)
    \/ DashboardShow
    \/ AdminShow
    \/ ReqEnd
    \/ /\ AtRest
       /\ \/ \E u \in Users, confirmed \in BOOLEAN : SignUp(u, confirmed)
          \/ \E u \in Users : SignIn(u)
          \/ SignOut
          \/ RefreshToken
          \/ \E u \in Users : ExternalSetRole(u, "admin")
    \/ /\ req.pc = "idle"
       /\ \/ EditStep(1, ValidInput(form[1].currentStep))
          \/ NextStepCall(1)
          \/ NextStepResume(1)
          \/ PrevStep(1)
          \/ inflight = << >> /\ SubmitEvent(1)
          \/ inflight = << >> /\ SubmitResume(1)
          \/ \E i \in 1..MaxInflight : StoreInsert(i)
          \/ \E i \in 1..MaxInflight : InsertResume(i)
          \/ RouterRefresh(1)
          \/ \E q \in LifeQueries : SetSearchQuery(q)
          \/ HandleExportCSV

SpecLife == InitLife /\ [][NextLife]_vars

\* SpecRoutes: a browser with a fixed session requests any path and
\* follows the redirects it is answered with.
MaxHops == 3

RoutePaths ==
    { << "/" >>, << "/login" >>, << "/register" >>, << "/events" >>,
      DashPath, << "/dashboard", "/settings" >>,
      AdminPath, << "/admin", "istrator" >>,
      << "/admin", "/logo", ".png" >>, << "/_next/static", "/app.js" >> }

\* Every page other than /admin and /dashboard (the not-found page
\* included) renders without looking at the session.
OtherPage ==
    /\ req.pc = "page"
    /\ req.path \notin PagePaths
    /\ req' = [req EXCEPT !.pc = "done", !.outcome = "render",
                          !.trace = Append(@, "page:render")]
    /\ UNCHANGED << registrations, metaRole, session, roleChanges, formVars,
                    clientVars >>

\* The browser follows a redirect: a new request for the redirect's
\* target, with the browser's cookie.
FollowRedirect ==
    /\ req.pc = "done"
    /\ req.outcome \in {"/login", "/dashboard"}
    /\ req.hops < MaxHops
    /\ req' = [NoReq EXCEPT
                 !.pc = IF Matcher(<< req.outcome >>)
                        THEN "middleware" ELSE "page",
                 !.path = << req.outcome >>, !.token = session,
                 !.hops = req.hops + 1]
    /\ UNCHANGED << registrations, metaRole, session, roleChanges, formVars,
                    clientVars >>

InitRoutes ==
    /\ registrations \in SeedStores
    /\ metaRole = [u \in Users |-> Absent]
    /\ session \in {NoSession}
                    \cup { [uid |-> u, role |-> Absent] : u \in Users }
    /\ req = NoReq
    /\ form = NoForms
    /\ pending = NoPending
    /\ inflight = << >>
    /\ clock = Len(registrations)
    /\ apiResult = NoResult
    /\ roleChanges = 0
    /\ table = NoTable

NextRoutes ==
    \/ \E u \in Users, r \in {"admin", "user"} : ExternalSetRole(u, r)
    \/ \E path \in RoutePaths : ReqStart(path)
    \/ UpdateSession
    \/ AdminPageGate
    \/ \E fails \in BOOLEAN : AdminPageFetch(fails)
    \/ DashboardGate
    \/ \E fails \in BOOLEAN : DashboardLookup(fails)
    \/ OtherPage
    \/ FollowRedirect
    \/ ReqEnd

SpecRoutes == InitRoutes /\ [][NextRoutes]_vars

-----------------------------------------------------------------------------
(* Properties of the access-control gate (Spec)                            *)

\* C1: a finished request to /admin was redirected to /login when the
\* session has no user, redirected to /dashboard when the session's user
\* has a role other than exactly "admin", and rendered only for a user
\* whose role is exactly "admin".
C1_AdminOutcome ==
    (req.pc = "done" /\ req.path = AdminPath) =>
        /\ req.token.uid = NoUser => req.outcome = "/login"
        /\ (req.token.uid # NoUser /\ req.user.role # "admin")
              => req.outcome = "/dashboard"
        /\ req.outcome = "render"
              => /\ req.token.uid \in Users
                 /\ req.user.id = req.token.uid
                 /\ req.user.role = "admin"

C1_Witness ==
    /\ req.pc = "done"
    /\ req.token.uid \in Users
    /\ req.user.role = "user"
    /\ req.outcome = "/dashboard"

IsSelect(e) == e \in {"select:ok", "select:error"}

\* C2: in every request, the select of the registrations comes after the
\* gate has allowed the request, and the gate has allowed it for a user
\* who is authenticated and whose role is "admin".
C2_FetchAfterChecks ==
    /\ req.pc = "fetch" => req.trace[Len(req.trace)] = "gate:allow"
    /\ \A i \in 1..Len(req.trace) :
          IsSelect(req.trace[i]) =>
              /\ \E j \in 1..(i - 1) : req.trace[j] = "gate:allow"
              /\ req.user.id \in Users
              /\ req.user.role = "admin"

C2_Witness ==
    /\ req.pc = "done"
    /\ req.trace = << "middleware:next", "gate:allow", "select:ok" >>
    /\ Len(req.rows) = 2

\* C3: the admin page shows a row of another user only when the gate found
\* the role "admin" in the user's metadata and the token's role claim is
\* "admin" as well.
C3_BothLayersAgree ==
    req.outcome = "render" =>
        \A i \in 1..Len(req.rows) :
            req.rows[i].user_id # req.token.uid =>
                /\ req.user.role = "admin"
                /\ req.token.role = "admin"

\* The gate lets the user in, the token still carries an older role, and
\* the other user's row in the store is not shown.
C3_Witness ==
    /\ req.outcome = "render"
    /\ req.trace[Len(req.trace)] = "select:ok"
    /\ req.user.role = "admin"
    /\ req.token.role # "admin"
    /\ \E i \in 1..Len(registrations) :
          registrations[i].user_id # req.token.uid
    /\ \A i \in 1..Len(req.rows) : req.rows[i].user_id = req.token.uid
    /\ Len(req.rows) = 1

\* C5: for a signed-in user the gate ends in a redirect to /dashboard or in
\* the page, never in anything else; every role value other than "admin"
\* (absent, null, empty, another string) gives the redirect.
C5_RoleDecisionTotal ==
    (req.pc \in {"fetch", "done"} /\ req.user.id # NoUser) =>
        IF req.user.role = "admin"
        THEN req.pc = "fetch" \/ req.outcome = "render"
        ELSE req.pc = "done" /\ req.outcome = "/dashboard"

C5_Witness ==
    /\ req.pc = "done"
    /\ req.user.id \in Users
    /\ req.user.role = JsNull
    /\ req.outcome = "/dashboard"

-----------------------------------------------------------------------------
(* Properties of the store (SpecStore)                                     *)

\* C4: a select returns the rows the caller owns, and the rows of other
\* users exactly when the role claim of the caller's token is "admin".
C4_SelectExact ==
    apiResult # NoResult =>
        apiResult.rows =
            SelectSeq(apiResult.of, LAMBDA r :
                \/ r.user_id = apiResult.token.uid
                \/ apiResult.token.role = "admin")

\* A caller who is not admin gets its own row and not the other user's.
C4_Witness ==
    /\ apiResult # NoResult
    /\ apiResult.token.uid \in Users
    /\ apiResult.token.role # "admin"
    /\ Len(apiResult.of) = 2
    /\ Len(apiResult.rows) = 1

\* An insert the store answers in this step.
Answered(i) ==
    /\ i \in 1..Len(inflight)
    /\ Len(inflight') = Len(inflight)
    /\ inflight[i].state = "sent"
    /\ inflight'[i].state = "answered"

HasRow(u) == \E k \in 1..Len(registrations) : registrations[k].user_id = u

\* C6: the store never holds two rows of one user; an insert for a user
\* who has a row is rejected (as a duplicate, when the policy and the CHECK
\* constraints pass) and leaves the table as it was.
C6_OneRowPerUser ==
    /\ [](\A u \in Users : Len(RowsOf(registrations, u)) <= 1)
    /\ [][\A i \in 1..MaxInflight :
            (Answered(i) /\ HasRow(inflight[i].row.user_id)) =>
                /\ inflight'[i].outcome \in {"rls", "check", "unique"}
                /\ (inflight[i].row.user_id = inflight[i].token.uid
                    /\ inflight[i].row.tshirt_size \in TshirtSizes)
                      => inflight'[i].outcome = "unique"
                /\ registrations' = registrations]_vars

C6_Witness ==
    \E i \in 1..Len(inflight) :
        /\ inflight[i].state = "answered"
        /\ inflight[i].outcome = "unique"
        /\ Len(registrations) = 2

-----------------------------------------------------------------------------
(* Properties of the registration form (SpecTabs, SpecForm)                *)

Last(seq) == seq[Len(seq)]

\* The inserts of all form instances that have resolved with success.
OkResults ==
    { fi \in Forms \X (1..MaxClock) :
        /\ fi[2] <= Len(form[fi[1]].results)
        /\ form[fi[1]].results[fi[2]] = "ok" }

\* A form instance on which an insert resolves in this step.
Resolves(f) == Len(form'[f].results) = Len(form[f].results) + 1

\* C7: with two form instances of one user submitting, at most one insert
\* succeeds and the store never has a second row of the user; once both
\* instances have submitted and every insert has resolved, exactly one
\* insert has succeeded and the store has one row; and an instance whose
\* insert is rejected gets the duplicate-key error, which is put on its
\* form.
C7_TwoTabsOneRow ==
    /\ [](/\ Cardinality(OkResults) <= 1
          /\ Len(RowsOf(registrations, "u1")) <= 1
          /\ (inflight = << >> /\ \A f \in Forms : form[f].results # << >>)
                => /\ Cardinality(OkResults) = 1
                   /\ Len(RowsOf(registrations, "u1")) = 1)
    /\ [][\A f \in Forms :
            (Resolves(f) /\ Last(form'[f].results) # "ok") =>
                /\ Last(form'[f].results) = "unique"
                /\ form'[f].error
                     = "duplicate key value violates unique constraint"
                /\ ~ form'[f].loading]_vars

C7_Witness ==
    \E f, g \in Forms :
        /\ form[f].results = << "ok" >>
        /\ form[g].results = << "unique" >>
        /\ form[g].error = "duplicate key value violates unique constraint"
        /\ form[g].mounted
        /\ inflight = << >>
        /\ Len(registrations) = 1

\* An insert that form instance f sends in this step.
Sends(f) ==
    /\ Len(inflight') = Len(inflight) + 1
    /\ Last(inflight').form = f

\* C8: while loading is true on a form instance, a submit on that
\* instance sends no insert.
C8_NoInsertWhileLoading ==
    [][\A f \in Forms : form[f].loading => ~ Sends(f)]_vars

\* C9: every insert a form sends comes from a submit event that happened
\* at step 3.
C9_InsertOnlyFromStep3 ==
    \A i \in 1..Len(inflight) :
        inflight[i].form \in Forms => inflight[i].step = 3

\* A nextStep call that starts, and one that resumes, in this step.
NextCalled(f) ==
    /\ Len(pending'[f]) = Len(pending[f]) + 1
    /\ Last(pending'[f]).kind = "next"
NextResumed(f) ==
    /\ pending[f] # << >>
    /\ Head(pending[f]).kind = "next"
    /\ pending'[f] = Tail(pending[f])

FieldsOfStep(s) ==
    IF s = 1 THEN {"fullName", "corporateEmail", "employeeId"}
    ELSE IF s = 2 THEN {"companyName"}
    ELSE {"tshirtSize", "emergencyContact", "emergencyPhone"}

\* C10: next() called at step s validates the fields of step s and no
\* others.  When they are all valid and s is 1 or 2 the step becomes s + 1;
\* when one is invalid next() leaves the step alone and the errors of the
\* invalid fields are set; called at step 3 it leaves the step alone.
C10_NextValidatesOwnStep ==
    [][\A f \in Forms :
        /\ NextCalled(f) =>
              /\ Last(pending'[f]).step = form[f].currentStep
              /\ Last(pending'[f]).errs =
                    { fld \in FieldsOfStep(form[f].currentStep) :
                         ~ ValidField(fld, form[f].values[fld]) }
        /\ NextResumed(f) =>
              LET p == Head(pending[f]) IN
              /\ (p.errs = {} /\ p.step \in {1, 2})
                    => form'[f].currentStep = p.step + 1
              /\ p.errs # {}
                    => /\ form'[f].currentStep = form[f].currentStep
                       /\ p.errs \subseteq form'[f].errors
              /\ p.step = 3
                    => form'[f].currentStep = form[f].currentStep]_vars

\* Step 1 has been passed while the fields of the later steps are invalid.
C10_Witness ==
    /\ form[1].currentStep = 2
    /\ pending[1] = << >>
    /\ SchemaErrors(form[1].values)
         = {"companyName", "tshirtSize", "emergencyContact", "emergencyPhone"}

\* A step in which form instance f changes its step while none of its
\* handler calls that wait for the resolver resumes: a click on Previous.
WentBack(f) ==
    /\ form'[f].currentStep # form[f].currentStep
    /\ pending'[f] = pending[f]

\* C11: going back from step s > 1 leads to step s - 1, runs no validation
\* (no field error is set or cleared, no resolver call is started) and
\* keeps every field value; no form is ever below step 1, so at step 1
\* there is nothing to go back to.
C11_BackKeepsValues ==
    /\ [](\A f \in Forms : form[f].currentStep \in Steps)
    /\ [][\A f \in Forms : WentBack(f) =>
            /\ form[f].currentStep > 1
            /\ form'[f].currentStep = form[f].currentStep - 1
            /\ form'[f].values = form[f].values
            /\ form'[f].errors = form[f].errors
            /\ pending' = pending
            /\ inflight' = inflight
            /\ registrations' = registrations]_vars

\* The form is back on step 1, having come from step 3, with what was
\* entered at steps 2 and 3 still there.
C11_Witness ==
    /\ form[1].mounted
    /\ form[1].currentStep = 1
    /\ form[1].values["companyName"] = << "A", "c" >>
    /\ form[1].values["tshirtSize"] = "M"

\* A submit event that form instance f starts handling in this step.
SubmitStarted(f) ==
    /\ Len(pending'[f]) = Len(pending[f]) + 1
    /\ Last(pending'[f]).kind = "submit"

\* The seven columns a form fills in, with the field each one comes from.
ColumnOf ==
    [fullName |-> "full_name", corporateEmail |-> "corporate_email",
     employeeId |-> "employee_id", companyName |-> "company_name",
     tshirtSize |-> "tshirt_size", emergencyContact |-> "emergency_contact",
     emergencyPhone |-> "emergency_phone"]

\* C12: a submit takes the values the form holds at that moment; the
\* insert it sends carries the form's user as user_id, those seven values
\* and status "confirmed"; and for a submit from step 3 by a user who has
\* no row, whose insert the store accepts, the table afterwards is the
\* table before plus exactly that row, the only row of the user.
C12_SubmitCreatesRow ==
    [][\A f \in Forms :
        /\ SubmitStarted(f) => Last(pending'[f]).data = form[f].values
        /\ Sends(f) =>
              LET p == Head(pending[f])
                  r == Last(inflight').row IN
              /\ r.user_id = form[f].userId
              /\ \A fld \in Fields : r[ColumnOf[fld]] = p.data[fld]
              /\ r.status = "confirmed"
        /\ \A i \in 1..MaxInflight :
              (/\ Answered(i)
               /\ inflight[i].form = f
               /\ inflight[i].step = 3
               /\ ~ HasRow(form[f].userId)
               /\ inflight[i].token.uid = form[f].userId) =>
                  /\ inflight'[i].outcome = "ok"
                  /\ registrations' = Append(registrations, inflight[i].row)
                  /\ Len(RowsOf(registrations', form[f].userId)) = 1]_vars

\* The store has accepted the insert of a submit made at step 3, and holds
\* the row with the values entered.
C12_Witness ==
    \E i \in 1..Len(inflight) :
        /\ inflight[i].state = "answered"
        /\ inflight[i].outcome = "ok"
        /\ inflight[i].step = 3
        /\ registrations = << inflight[i].row >>
        /\ registrations[1].user_id = "u1"
        /\ registrations[1].company_name = << "A", "c" >>
        /\ registrations[1].status = "confirmed"

\* The answered insert of form instance f that its onSubmit takes up in
\* this step.
ResumedInsert(f, i) ==
    /\ i \in 1..Len(inflight)
    /\ inflight[i].form = f
    /\ inflight[i].state = "answered"
    /\ inflight' = RemoveAt(inflight, i)
    /\ Resolves(f)

\* C13: an insert the store rejects leaves the table as it was; when the
\* rejection reaches the form, the form's error is the store's message,
\* loading is false, the step, the values and the field errors are what
\* they were, no insert and no resolver call is started (no retry) and no
\* refresh is requested.
C13_RejectionShown ==
    [][/\ \A i \in 1..MaxInflight :
            (Answered(i) /\ inflight'[i].outcome # "ok")
                => registrations' = registrations
       /\ \A f \in Forms : \A i \in 1..MaxInflight :
            (ResumedInsert(f, i) /\ inflight[i].outcome # "ok") =>
                /\ form'[f].error = ErrorMessage(inflight[i].outcome)
                /\ form'[f].error # ""
                /\ ~ form'[f].loading
                /\ form'[f].currentStep = form[f].currentStep
                /\ form'[f].values = form[f].values
                /\ form'[f].errors = form[f].errors
                /\ form'[f].mounted = form[f].mounted
                /\ form'[f].refreshing = form[f].refreshing
                /\ pending' = pending
                /\ Len(inflight') < Len(inflight)
                /\ registrations' = registrations]_vars

\* A form on step 3 shows the duplicate-key message of its rejected insert,
\* with its values still entered, and the store holds the one earlier row.
C13_Witness ==
    /\ form[1].mounted
    /\ form[1].currentStep = 3
    /\ ~ form[1].loading
    /\ form[1].results # << >>
    /\ Last(form[1].results) = "unique"
    /\ form[1].error = "duplicate key value violates unique constraint"
    /\ form[1].values = ValidInput(1) @@ ValidInput(2) @@ ValidInput(3)
    /\ inflight = << >>
    /\ Len(registrations) = 1

\* Form instance f has had an insert accepted.
Succeeded(f) == \E k \in 1..Len(form[f].results) : form[f].results[k] = "ok"

\* C14: when an insert of a form instance resolves with success a refresh
\* of the page is requested, and from then on the instance sends no insert
\* and puts no error on its banner.
C14_TerminalAfterSuccess ==
    [][\A f \in Forms :
        /\ (Resolves(f) /\ Last(form'[f].results) = "ok")
              => form'[f].refreshing
        /\ Succeeded(f) =>
              /\ ~ Sends(f)
              /\ form'[f].error \in {NoError, form[f].error}]_vars

-----------------------------------------------------------------------------
(* Properties of the pages (SpecPages)                                     *)

\* A finished request to /dashboard by a signed-in user.
DashDone ==
    /\ req.pc = "done"
    /\ req.path = DashPath
    /\ req.token.uid \in Users

LookupFailed == req.trace # << >> /\ Last(req.trace) = "lookup:error"

\* C15: a request to /dashboard by a signed-in user who has no row in the
\* store renders the registration form, and no status card.
C15_FormForUnregistered ==
    (DashDone /\ RowsOf(registrations, req.token.uid) = << >>) =>
        /\ req.outcome = "form"
        /\ req.view = NoView

\* The lookup came back without a row for the user, while the store holds
\* the row of another user.
C15_Witness ==
    /\ DashDone
    /\ Last(req.trace) = "lookup:ok"
    /\ RowsOf(registrations, req.token.uid) = << >>
    /\ registrations # << >>
    /\ req.outcome = "form"

\* What the status card must print of a row.
CardShows(view, row) ==
    /\ view # NoView
    /\ view.full_name = row.full_name
    /\ view.corporate_email = row.corporate_email
    /\ view.employee_id = row.employee_id
    /\ view.company_name = row.company_name
    /\ view.tshirt_size = row.tshirt_size
    /\ view.emergency_contact = row.emergency_contact
    /\ view.emergency_phone = row.emergency_phone
    /\ view.status = "CONFIRMED"
    /\ view.registration_date.day = row.registration_date \div TicksPerDay

\* C16, as stated: a request to /dashboard by a signed-in user who has
\* exactly one row renders the status card with the fields of that row,
\* and not the form.
C16_CardForRegisteredAlways ==
    (DashDone /\ Len(RowsOf(registrations, req.token.uid)) = 1) =>
        /\ req.outcome = "card"
        /\ CardShows(req.view, RowsOf(registrations, req.token.uid)[1])

\* C16, amended: a request to /dashboard by a signed-in user who has
\* exactly one row, and whose lookup returns without error, renders the
\* status card with the fields of that row, and not the form.
C16_CardForRegistered ==
    (DashDone /\ Len(RowsOf(registrations, req.token.uid)) = 1
              /\ ~ LookupFailed) =>
        /\ req.outcome = "card"
        /\ CardShows(req.view, RowsOf(registrations, req.token.uid)[1])

\* The card of u1 is rendered from a store that also holds the row of u2.
C16_Witness ==
    /\ DashDone
    /\ req.token.uid = "u1"
    /\ Len(registrations) = 2
    /\ req.outcome = "card"
    /\ req.view.tshirt_size = "M"
    /\ req.rows = RowsOf(registrations, "u1")

\* C17: a request whose read fails ends in a rendered page: the dashboard
\* with the registration form, the admin page with a table of no rows;
\* never in a redirect or an error.
C17_FailingReadDegrades ==
    (req.pc = "done" /\ req.trace # << >>) =>
        /\ Last(req.trace) = "lookup:error"
              => /\ req.outcome = "form"
                 /\ req.view = NoView
        /\ Last(req.trace) = "select:error"
              => /\ req.outcome = "render"
                 /\ req.rows = << >>

\* The admin's fetch failed over a store with two rows, and the page is
\* rendered with none.
C17_Witness ==
    /\ req.pc = "done"
    /\ req.path = AdminPath
    /\ Last(req.trace) = "select:error"
    /\ req.user.role = "admin"
    /\ req.token.role = "admin"
    /\ Len(registrations) = 2
    /\ req.outcome = "render"
    /\ req.rows = << >>

-----------------------------------------------------------------------------
(* Properties of the admin table (SpecTable)                               *)

\* A query of no characters or of blanks only.
Blank(q) == \A i \in 1..Len(q) : q[i] \in {" ", "\t"}

\* C18: while the query is empty or consists of white space, the view of
\* the table is the list of rows it was given: the same rows in the same
\* order.
C18_BlankQueryIsIdentity ==
    (table.mounted /\ Blank(table.searchQuery)) =>
        table.filtered = table.registrations

\* A query of two blanks over four rows, one of which has a blank in its
\* company name.
C18_Witness ==
    /\ table.mounted
    /\ table.searchQuery = << " ", " " >>
    /\ Len(table.registrations) = 4
    /\ Len(table.filtered) = 4

\* Two characters that differ at most in case.
SameFolded(c, d) ==
    \/ c = d
    \/ \E k \in 1..26 : {c, d} = {Upper[k], Lower[k]}

\* The company name contains the query when case is ignored.
ContainsFolded(company, q) ==
    \E off \in 0..(Len(company) - Len(q)) :
        \A j \in 1..Len(q) : SameFolded(company[off + j], q[j])

\* C19: while the query is not blank, the view of the table is the list of
\* the rows whose company name contains the query, case ignored, in the
\* order of the rows given; it is determined by the rows and the query of
\* the moment and by nothing else of a row.
C19_FilterBySubstring ==
    (table.mounted /\ ~ Blank(table.searchQuery)) =>
        table.filtered =
            SelectSeq(table.registrations, LAMBDA r :
                ContainsFolded(r.company_name, table.searchQuery))

\* The query "aC" over four rows keeps "acme Labs" and "Acme", in that
\* order, and leaves out "Other" and the row whose full name is "acme".
C19_Witness ==
    /\ table.mounted
    /\ table.searchQuery = << "a", "C" >>
    /\ Len(table.registrations) = 4
    /\ Len(table.filtered) = 2
    /\ table.filtered[1].user_id = "u2"
    /\ table.filtered[2].user_id = "u1"

\* The lines of a text.
RECURSIVE SplitLines(_)
SplitLines(text) ==
    IF \E i \in 1..Len(text) : text[i] = "\n"
    THEN LET i == CHOOSE k \in 1..Len(text) :
                     /\ text[k] = "\n"
                     /\ \A j \in 1..(k - 1) : text[j] # "\n"
         IN << SubSeq(text, 1, i - 1) >>
            \o SplitLines(SubSeq(text, i + 1, Len(text)))
    ELSE << text >>

IsPrefix(p, text) ==
    Len(p) <= Len(text) /\ SubSeq(text, 1, Len(p)) = p

\* A line that starts with the quoted name and a comma.
StartsWithName(line, name) ==
    IsPrefix(<< "\"" >> \o name \o << "\"", "," >>, line)

\* C20: an export writes the header line of the nine column names and then
\* one line for each row of the view on screen, in the view's order, each
\* starting with the row's full name in double quotes; a row of the table
\* that the query leaves out has no line.
C20_ExportIsFilteredView ==
    [][table'.csv # table.csv =>
        LET lines == SplitLines(table'.csv)
            view == table.filtered IN
        /\ view = SelectSeq(table.registrations, LAMBDA r :
                      Blank(table.searchQuery)
                      \/ ContainsFolded(r.company_name, table.searchQuery))
        /\ Len(lines) = Len(view) + 1
        /\ lines[1] = << "Full Name", ",", "Corporate Email", ",",
                         "Employee ID", ",", "Company Name", ",",
                         "T-shirt Size", ",", "Emergency Contact", ",",
                         "Emergency Phone", ",", "Registration Date", ",",
                         "Status" >>
        /\ \A i \in 1..Len(view) :
              StartsWithName(lines[i + 1], view[i].full_name)
        /\ \A k \in 1..Len(table.registrations) :
              (\A i \in 1..Len(view) : view[i] # table.registrations[k]) =>
                  \A n \in 2..Len(lines) :
                      ~ StartsWithName(lines[n],
                                       table.registrations[k].full_name)]_vars

\* The file written under the query "aC" over four rows has three lines:
\* the header and the lines of the two rows in the view.
C20_Witness ==
    /\ table.mounted
    /\ table.searchQuery = << "a", "C" >>
    /\ Len(table.registrations) = 4
    /\ Len(table.filtered) = 2
    /\ table.csv # << >>
    /\ Len(SplitLines(table.csv)) = 3
    /\ StartsWithName(SplitLines(table.csv)[2], << "J", "\"", "o" >>)
    /\ StartsWithName(SplitLines(table.csv)[3], << "A", "l" >>)

-----------------------------------------------------------------------------
(* Properties of the routes (SpecRoutes)                                   *)

\* The request has been through the middleware, which redirected it.
RedirectedByMiddleware ==
    req.trace # << >> /\ req.trace[1] = "middleware:redirect"

\* The request has been through the middleware, which let it pass.
PassedByMiddleware ==
    req.trace # << >> /\ req.trace[1] = "middleware:next"

\* C21, as stated: a request is redirected by the middleware exactly when
\* it has no user and its path starts with /dashboard or /admin, and then
\* to /login.
C21_MiddlewareRedirectAnyPath ==
    req.pc \in {"page", "fetch", "lookup", "done"} =>
        /\ RedirectedByMiddleware <=>
              /\ req.token.uid = NoUser
              /\ req.path[1] \in {"/dashboard", "/admin"}
        /\ RedirectedByMiddleware => req.outcome = "/login"

\* C21, amended: on the paths its matcher selects (all but static assets
\* and image files), the middleware redirects a request exactly when the
\* request has no user and its path starts with /dashboard or /admin, and
\* then to /login; every other request it handles passes, among them
\* every request of a signed-in user and those for /login and /register;
\* on a path the matcher excludes it does not run.
C21_MiddlewareRedirect ==
    /\ req.pc \in {"page", "fetch", "lookup", "done"} =>
          /\ Matcher(req.path) => (RedirectedByMiddleware
                                      \/ PassedByMiddleware)
          /\ RedirectedByMiddleware <=>
                /\ Matcher(req.path)
                /\ req.token.uid = NoUser
                /\ req.path[1] \in {"/dashboard", "/admin"}
          /\ RedirectedByMiddleware =>
                /\ req.pc = "done"
                /\ req.outcome = "/login"
                /\ req.trace = << "middleware:redirect" >>
    /\ (req.pc = "middleware" \/ RedirectedByMiddleware
                              \/ PassedByMiddleware) => Matcher(req.path)

\* A request without user for a path under /dashboard has been redirected
\* to /login by the middleware.
C21_Witness ==
    /\ req.pc = "done"
    /\ req.token.uid = NoUser
    /\ req.path = << "/dashboard", "/settings" >>
    /\ RedirectedByMiddleware
    /\ req.outcome = "/login"

IsRedirect(outcome) == outcome \in {"/login", "/dashboard"}

\* C28: with the session fixed, a chain of redirects has at most two
\* redirects: a request that has followed two is answered with a page.
\* A redirect to /login is the answer to a request without user for a
\* path under /dashboard or /admin, a redirect to /dashboard the answer
\* to a signed-in user who asks for /admin without the role admin; what
\* is requested after a redirect is a page that renders.
C28_NoRedirectLoop ==
    /\ req.hops <= 2
    /\ (req.pc = "done" /\ IsRedirect(req.outcome)) =>
          /\ req.hops < 2
          /\ req.outcome = "/login" =>
                /\ req.token.uid = NoUser
                /\ req.path[1] \in {"/dashboard", "/admin"}
          /\ req.outcome = "/dashboard" =>
                /\ req.token.uid \in Users
                /\ req.path = AdminPath
                /\ req.user.role # "admin"
    /\ (req.pc = "done" /\ req.hops >= 1) => ~ IsRedirect(req.outcome)

\* A signed-in user without the role asked for /admin, was redirected, and
\* the dashboard is rendered as the answer to the second request.
C28_Witness ==
    /\ req.pc = "done"
    /\ req.hops = 1
    /\ req.path = DashPath
    /\ req.token.uid \in Users
    /\ req.outcome \in {"form", "card"}

\* ---------------------------------------------------------------------
\* Properties of the navigation bar (Spec)
\* ---------------------------------------------------------------------

GateRan ==
    \E i \in DOMAIN req.trace : req.trace[i] \in {"gate:allow", "gate:redirect"}

\* C29: for every user object the navigation bar renders the Admin link
\* exactly when the admin gate lets that user object in: for every id and
\* every value of the role (absent, null, empty, any string), for the user
\* of the browser's session, and for the user on which the gate of a
\* request has decided.
C29_NavbarMatchesGate ==
    /\ \A id \in Users \cup {NoUser}, r \in RoleValues :
          LET user == [id |-> id, role |-> r] IN
          /\ NavbarShowsAdmin(user) <=> (GateDecision(user) = "allow")
          /\ r # "admin" => (~ NavbarShowsAdmin(user) /\ GateDecision(user) # "allow")
    /\ NavbarShowsAdmin(NavbarUser) <=> (GateDecision(NavbarUser) = "allow")
    /\ GateRan =>
          (NavbarShowsAdmin(req.user) <=>
              \E i \in DOMAIN req.trace : req.trace[i] = "gate:allow")

\* The gate has let in a user whose role is admin, and the navigation bar
\* shows the link for that user object.
C29_Witness ==
    /\ GateRan
    /\ req.user.role = "admin"
    /\ NavbarShowsAdmin(req.user)
    /\ NavbarShowsAdmin(NavbarUser)

\* ---------------------------------------------------------------------
\* Properties of the validators (SpecFields)
\* ---------------------------------------------------------------------

SampleChars == {"A", "l", "5"}
SampleTexts ==
    UNION { [1..n -> SampleChars] : n \in 0..3 }
        \cup { Phone9, Phone10, Phone10 \o << "5" >> }
GoodEmails == { Email1, << "a", ".", "b", "@", "c", ".", "c", "o" >> }
BadEmails ==
    { << >>, BadEmail, << "a", "b", ".", "c", "o" >>, << "@", "b", ".", "c", "o" >>,
      << "a", "@", "b", ".", "c" >>, << "a", "@", "@", "b", ".", "c", "o" >> }
SampleSizes == { "S", "M", "L", "XL", "XXL", "s", "" }

\* The rule the specification gives for a field.
Accepts(field, v) ==
    CASE field = "fullName"         -> Len(v) >= 2
      [] field = "corporateEmail"   -> v \in GoodEmails
      [] field = "employeeId"       -> Len(v) >= 1
      [] field = "companyName"      -> Len(v) >= 2
      [] field = "tshirtSize"       -> v \in {"S", "M", "L", "XL"}
      [] field = "emergencyContact" -> Len(v) >= 2
      [] field = "emergencyPhone"   -> Len(v) >= 10

SamplesOf(field) ==
    CASE field = "corporateEmail" -> GoodEmails \cup BadEmails
      [] field = "tshirtSize"     -> SampleSizes
      [] OTHER                    -> SampleTexts

\* On the samples of each field the schema accepts what the rule accepts.
ValidatorsMatchRules ==
    \A fld \in Fields : \A v \in SamplesOf(fld) :
        ValidField(fld, v) <=> Accepts(fld, v)

\* C24: each validator accepts exactly the inputs of its rule (full name
\* of 2 or more characters, well-formed e-mail, employee id of 1 or more,
\* company name of 2 or more, size one of S, M, L, XL, contact name of 2
\* or more, phone of 10 or more).  next() hands the values of the step on
\* screen to these validators: it finds in error exactly the step's fields
\* that break their rule, and it advances by one step exactly when it finds
\* none (at steps 1 and 2); otherwise the step stays and the fields in
\* error are marked.  So at step 1, with e-mail and employee id valid, a
\* full name of 2 characters advances and one of 1 character is blocked.
C24_ValidatorsThenStep ==
    [][ /\ ValidatorsMatchRules
        /\ \A f \in Forms :
              /\ NextCalled(f) =>
                    LET p == Last(pending'[f]) IN
                    /\ p.step = form[f].currentStep
                    /\ p.errs = { fld \in StepFields(p.step) :
                                    ~ Accepts(fld, form[f].values[fld]) }
              /\ NextResumed(f) =>
                    LET p == Head(pending[f]) IN
                    IF p.errs = {} /\ p.step < 3
                    THEN form'[f].currentStep = p.step + 1
                    ELSE /\ form'[f].currentStep = form[f].currentStep
                         /\ p.errs \subseteq form'[f].errors
      ]_vars

\* The form has advanced to step 2 with the two-character name "Al".
C24_Witness ==
    /\ form[1].currentStep = 2
    /\ form[1].values["fullName"] = << "A", "l" >>
    /\ form[1].errors = {}
    /\ pending[1] = << >>

\* The one-character name "A" was blocked at step 1, the other fields of
\* the step being valid.
C24_WitnessBlocked ==
    /\ form[1].currentStep = 1
    /\ form[1].values["fullName"] = << "A" >>
    /\ form[1].values["corporateEmail"] = Email1
    /\ form[1].values["employeeId"] = << "7" >>
    /\ "fullName" \in form[1].errors
    /\ pending[1] = << >>

\* ---------------------------------------------------------------------
\* Properties of the rows the form sends (SpecForm)
\* ---------------------------------------------------------------------

\* A row meets the rules of the three steps and the CHECK constraints.
RowMeetsRules(row) ==
    /\ \A fld \in Fields : Accepts(fld, row[ColumnOf[fld]])
    /\ row.tshirt_size \in {"S", "M", "L", "XL"}
    /\ row.status \in {"confirmed", "pending", "cancelled"}

\* C25: every row a form sends to the store, and so every row stored,
\* meets the validation rules of all three steps and the CHECK constraints
\* on tshirt_size and status, whatever sequence of next, back and edit
\* came before the submit; the store never answers such an insert with a
\* CHECK violation.
C25_SentRowsAreValid ==
    /\ \A i \in 1..Len(inflight) :
          inflight[i].form \in Forms =>
              /\ RowMeetsRules(inflight[i].row)
              /\ inflight[i].outcome # "check"
    /\ \A i \in 1..Len(registrations) : RowMeetsRules(registrations[i])
    /\ \A f \in Forms : \A i \in 1..Len(form[f].results) :
          form[f].results[i] # "check"

\* The user went back from step 3 to step 2, the form was submitted from
\* there, and the row sent is valid while the step-1 input on screen has
\* since been changed to a name that is too short.
C25_Witness ==
    /\ Len(inflight) >= 1
    /\ inflight[1].form = 1
    /\ inflight[1].step = 2
    /\ RowMeetsRules(inflight[1].row)
    /\ form[1].currentStep = 1
    /\ form[1].values["fullName"] = << "A" >>

\* ---------------------------------------------------------------------
\* Properties of the step under pending validations (SpecForm)
\* ---------------------------------------------------------------------

\* C26: the step is always 1, 2 or 3, and whenever a next() that resumes
\* after its validation changes the step, the new step is the step that
\* was current at that moment plus one, also when back() or another
\* next() ran while the validation was pending.
C26_StepNeverSkips ==
    /\ [](\A f \in Forms : form[f].currentStep \in {1, 2, 3})
    /\ [][ \A f \in Forms :
              (NextResumed(f) /\ form'[f].currentStep # form[f].currentStep)
                  => form'[f].currentStep = form[f].currentStep + 1
         ]_vars

\* ---------------------------------------------------------------------
\* Properties of the application end to end (SpecLife)
\* ---------------------------------------------------------------------

\* C22: no operation modifies or deletes a registration row: in every
\* step (dashboard load, next, back, submit, admin load, filter, export,
\* sign-in, sign-up, sign-out) each row of the table is afterwards what and
\* where it was before, all fields and status included; the table only
\* grows at its end.
C22_RowsNeverChange ==
    [][ /\ Len(registrations') >= Len(registrations)
        /\ \A i \in 1..Len(registrations) :
              registrations'[i] = registrations[i]
      ]_vars

\* u1 signed up and registered through the form; afterwards the admin
\* loaded /admin, filtered and exported, and both rows are in the table.
C22_Witness ==
    /\ Len(registrations) = 2
    /\ registrations[1].user_id = "u2"
    /\ registrations[2].user_id = "u1"
    /\ table.mounted
    /\ table.searchQuery = << "a" >>
    /\ table.csv # << >>
    /\ session.uid = "u2"

\* C23: no operation of the application sets or changes a role: the
\* stored role of a user changes only when signup creates the account,
\* and then to "absent" (the metadata written is full_name and company),
\* or by an edit from outside the application.  So as long as no such edit
\* has happened, the user who signed up (u1) has no role, carries none in
\* the session, and is never let through the admin gate, which answers
\* that user's requests for /admin with the redirect to /dashboard.
C23_SignupUserNotAdmin ==
    /\ [][ \A u \in Users :
              metaRole'[u] # metaRole[u] =>
                  \/ roleChanges' = roleChanges + 1
                  \/ /\ metaRole[u] = NoAccount
                     /\ metaRole'[u] = Absent
                     /\ roleChanges' = roleChanges
         ]_vars
    /\ [](roleChanges = 0 =>
            /\ metaRole["u1"] \in {NoAccount, Absent}
            /\ session.uid = "u1" => session.role = Absent
            /\ req.token.uid = "u1" =>
                  /\ req.pc # "fetch"
                  /\ \A i \in DOMAIN req.trace : req.trace[i] # "gate:allow"
                  /\ GateRan => req.outcome = "/dashboard")

\* u1 signed up, asked for /admin, and the gate answered with the redirect
\* to /dashboard; no role has been edited from outside.
C23_Witness ==
    /\ roleChanges = 0
    /\ req.pc = "done"
    /\ req.path = AdminPath
    /\ req.user.id = "u1"
    /\ GateRan
    /\ req.outcome = "/dashboard"

\* C27: the store accepts an insert only when the row's user_id is the id
\* of the caller: the table grows only by the row of an insert whose
\* token belongs to the row's owner, and an insert whose token belongs to
\* somebody else, or to nobody, is answered with the policy violation.
\* The form sends its inserts with the user id the dashboard was rendered
\* for and with the session of the moment of the submit; so when the
\* session has changed in between, the insert is refused and no row owned
\* by one user is ever created under the session of another.
C27_OnlyOwnerInserts ==
    /\ [][ /\ Len(registrations') > Len(registrations) =>
                \E i \in 1..Len(inflight) :
                    /\ inflight[i].state = "sent"
                    /\ inflight'[i].state = "answered"
                    /\ inflight'[i].outcome = "ok"
                    /\ registrations' = Append(registrations, inflight[i].row)
                    /\ inflight[i].token.uid = inflight[i].row.user_id
           /\ \A f \in Forms :
                (/\ pending[f] # << >>
                 /\ Head(pending[f]).kind = "submit"
                 /\ pending'[f] = Tail(pending[f])
                 /\ Len(inflight') = Len(inflight) + 1) =>
                    /\ Last(inflight').row.user_id = form[f].userId
                    /\ Last(inflight').token = session
         ]_vars
    /\ [](\A i \in 1..Len(inflight) :
            inflight[i].state = "answered" =>
                /\ inflight[i].outcome = "ok" =>
                      inflight[i].token.uid = inflight[i].row.user_id
                /\ inflight[i].token.uid # inflight[i].row.user_id =>
                      inflight[i].outcome = "rls")

\* The dashboard rendered the form for u1; u2 signed in before the
\* submit; the insert went out with u2's session and u1's id and was
\* refused, and u1 has no row.
C27_Witness ==
    /\ Len(inflight) = 1
    /\ inflight[1].state = "answered"
    /\ inflight[1].row.user_id = "u1"
    /\ inflight[1].token.uid = "u2"
    /\ inflight[1].outcome = "rls"
    /\ form[1].userId = "u1"
    /\ RowsOf(registrations, "u1") = << >>

\* ---------------------------------------------------------------------
\* Properties of the exported file as CSV (SpecTable)
\* ---------------------------------------------------------------------

\* The number of fields of a line read as comma-delimited CSV with
\* double-quoted fields: a field that starts with a quote runs to its
\* closing quote, commas included, a doubled quote inside it standing for
\* one quote; a closing quote is followed by a comma or the end of the
\* line.  0 when the line cannot be read this way.
RECURSIVE CsvScan(_, _, _, _)
CsvScan(line, i, mode, n) ==
    IF i > Len(line)
    THEN IF mode = "quoted" THEN 0 ELSE n + 1
    ELSE LET c == line[i] IN
         CASE mode = "start" ->
                IF c = "\"" THEN CsvScan(line, i + 1, "quoted", n)
                ELSE IF c = "," THEN CsvScan(line, i + 1, "start", n + 1)
                ELSE CsvScan(line, i + 1, "plain", n)
           [] mode = "plain" ->
                IF c = "," THEN CsvScan(line, i + 1, "start", n + 1)
                ELSE CsvScan(line, i + 1, "plain", n)
           [] mode = "quoted" ->
                IF c # "\"" THEN CsvScan(line, i + 1, "quoted", n)
                ELSE IF i < Len(line) /\ line[i + 1] = "\""
                     THEN CsvScan(line, i + 2, "quoted", n)
                ELSE CsvScan(line, i + 1, "closed", n)
           [] mode = "closed" ->
                IF c = "," THEN CsvScan(line, i + 1, "start", n + 1)
                ELSE 0

CsvFieldCount(line) == CsvScan(line, 1, "start", 0)

\* C30: every data line of an exported file reads as nine CSV fields, one
\* for each column of the header, whatever the text fields of the row
\* hold, a comma or a double quote included.
C30_NineFieldsPerLine ==
    table.csv # << >> =>
        LET lines == SplitLines(table.csv) IN
        /\ CsvFieldCount(lines[1]) = Len(headers)
        /\ \A i \in 2..Len(lines) : CsvFieldCount(lines[i]) = 9

====
